---- MODULE Spec2Model ----
(***************************************************************************)
(* Model of the codec layer of the compression portal                      *)
(* (src/project/src/utils/compressionAlgorithms.ts): Huffman coding,       *)
(* run-length encoding, the simplified LZ77 and decompressData.            *)
(*                                                                         *)
(* A JavaScript string is modelled as a sequence of one-character strings  *)
(* (its UTF-16 code units); every character of the modelled alphabet is a  *)
(* single code unit, so code-point iteration and indexing coincide.        *)
(***************************************************************************)
EXTENDS Integers, Sequences, FiniteSets, TLC

(* ------------------------------ bounds -------------------------------- *)

\* longest input string handed to an encoder
MaxLen == 6

\* the long LZ77 inputs hold two 'b' up to windowSize + MaxOverWindow apart
MaxOverWindow == 1

\* the long RLE inputs are runs of up to maxRun + MaxOverRun equal symbols
MaxOverRun == 4

\* most file reads that are under way at once
MaxReads == 2

\* longest hand-made triple list handed to the LZ77 decoder
MaxTokens == 2

\* largest offset / length field of a hand-made triple
MaxField == 2

\* the input alphabet: two letters, a digit and a non-alphanumeric symbol
\* (the double quote, which JSON.stringify has to escape)
Alphabet == {"a", "b", "1", "\""}

(* --------------------------- program constants ------------------------ *)

windowSize == 4096

lookAheadSize == 18

\* cap of one RLE run, the literal 255 of the run-scanning loop
maxRun == 255

\* size units charged per LZ77 triple
tripleCost == 6

(* ------------------------- JavaScript strings ------------------------- *)

Digits == {"0", "1", "2", "3", "4", "5", "6", "7", "8", "9"}

Letters ==
  {"a","b","c","d","e","f","g","h","i","j","k","l","m","n","o","p","q","r",
   "s","t","u","v","w","x","y","z",
   "A","B","C","D","E","F","G","H","I","J","K","L","M","N","O","P","Q","R",
   "S","T","U","V","W","X","Y","Z"}

\* /\d/.test(c)
IsDigit(c) == c \in Digits

\* /[^a-zA-Z0-9]/.test(c)
IsNonAlphanumeric(c) == c \notin (Letters \cup Digits)

Max(x, y) == IF x >= y THEN x ELSE y

Min(x, y) == IF x <= y THEN x ELSE y

\* all strings over S of length at most n
StringsUpTo(S, n) == UNION {[1..k -> S] : k \in 0..n}

\* c.repeat(n)
Repeat(c, n) == [k \in 1..n |-> c]

\* s.substring(from, to) with 0-based, end-exclusive indexes, clamped like JS
Substring(s, from, to) ==
  LET f == Min(Max(from, 0), Len(s))
      t == Min(Max(to, 0), Len(s))
  IN  SubSeq(s, Min(f, t) + 1, Max(f, t))

\* what `s += s[idx]` appends: the code unit at the 0-based index idx, or the
\* text of the value undefined when idx is outside the string
UndefinedText == <<"u", "n", "d", "e", "f", "i", "n", "e", "d">>

CharAtText(s, idx) ==
  IF idx >= 0 /\ idx < Len(s) THEN <<s[idx + 1]>> ELSE UndefinedText

\* the decimal text of a non-negative integer, as template literals and
\* JSON.stringify write it
RECURSIVE NumberToString(_)
NumberToString(n) ==
  LET d == <<"0", "1", "2", "3", "4", "5", "6", "7", "8", "9">>[(n % 10) + 1]
  IN  IF n < 10 THEN <<d>> ELSE Append(NumberToString(n \div 10), d)

DigitValue(c) ==
  CASE c = "0" -> 0 [] c = "1" -> 1 [] c = "2" -> 2 [] c = "3" -> 3
    [] c = "4" -> 4 [] c = "5" -> 5 [] c = "6" -> 6 [] c = "7" -> 7
    [] c = "8" -> 8 [] c = "9" -> 9

\* parseInt(numStr) of a non-empty string of decimal digits
RECURSIVE parseInt(_)
parseInt(numStr) ==
  IF Len(numStr) = 0 THEN 0
  ELSE parseInt(SubSeq(numStr, 1, Len(numStr) - 1)) * 10
         + DigitValue(numStr[Len(numStr)])

\* new Blob([s]).size: the UTF-8 length; every modelled character is ASCII,
\* one byte each
Utf8Bytes(c) == 1

\* the bytes of the code units from + 1 .. to of s (the range is halved so
\* that a long string evaluates in a shallow recursion)
RECURSIVE BytesBetween(_, _, _)
BytesBetween(s, from, to) ==
  IF from >= to THEN 0
  ELSE IF to = from + 1 THEN Utf8Bytes(s[to])
  ELSE LET mid == (from + to) \div 2
       IN  BytesBetween(s, from, mid) + BytesBetween(s, mid, to)

BlobSize(s) == BytesBetween(s, 0, Len(s))

(* ------------------------------- JSON --------------------------------- *)

Quote == "\""

Backslash == "\\"

\* JSON.stringify of a string: quoted, with quote and backslash escaped
RECURSIVE JsonEscape(_)
JsonEscape(s) ==
  IF Len(s) = 0 THEN <<>>
  ELSE (IF s[1] \in {Quote, Backslash} THEN <<Backslash, s[1]>> ELSE <<s[1]>>)
         \o JsonEscape(Tail(s))

JsonString(s) == <<Quote>> \o JsonEscape(s) \o <<Quote>>

(* ------------------------------ Huffman ------------------------------- *)

\* class HuffmanNode: a leaf carries a char, an internal node (char null)
\* carries its two children; NullTree is the null root
NullTree == [kind |-> "null"]

HuffmanNode(char, freq) == [kind |-> "leaf", char |-> char, freq |-> freq]

ParentNode(left, right) ==
  [kind |-> "node", freq |-> left.freq + right.freq,
   left |-> left, right |-> right]

\* freqTable.set(char, (freqTable.get(char) || 0) + 1) on a Map kept as the
\* sequence of its entries in insertion order
FreqTableAdd(table, char) ==
  IF \E k \in 1..Len(table) : table[k].char = char
  THEN [k \in 1..Len(table) |->
          IF table[k].char = char
          THEN [char |-> char, freq |-> table[k].freq + 1]
          ELSE table[k]]
  ELSE Append(table, [char |-> char, freq |-> 1])

RECURSIVE FreqTableScan(_, _)
FreqTableScan(table, rest) ==
  IF Len(rest) = 0 THEN table
  ELSE FreqTableScan(FreqTableAdd(table, rest[1]), Tail(rest))

buildFrequencyTable(d) == FreqTableScan(<<>>, d)

\* nodes.sort((a, b) => a.freq - b.freq): stable, ascending by freq
RECURSIVE InsertByFreq(_, _)
InsertByFreq(sorted, node) ==
  IF Len(sorted) = 0 THEN <<node>>
  ELSE IF sorted[Len(sorted)].freq <= node.freq THEN Append(sorted, node)
  ELSE Append(InsertByFreq(SubSeq(sorted, 1, Len(sorted) - 1), node),
              sorted[Len(sorted)])

RECURSIVE SortByFreq(_)
SortByFreq(nodes) ==
  IF Len(nodes) = 0 THEN <<>>
  ELSE InsertByFreq(SortByFreq(SubSeq(nodes, 1, Len(nodes) - 1)),
                    nodes[Len(nodes)])

\* one pass of the merge loop without the sort: the first two nodes of the
\* array are joined
MergeLowest_Unsorted(nodes) ==
  Append(SubSeq(nodes, 3, Len(nodes)), ParentNode(nodes[1], nodes[2]))

\* one pass of the merge loop that joins the two nodes of highest weight
MergeLowest_JoinsHighest(nodes) ==
  LET sorted == SortByFreq(nodes)
  IN  Append(SubSeq(sorted, 1, Len(sorted) - 2),
             ParentNode(sorted[Len(sorted) - 1], sorted[Len(sorted)]))

\* one pass of the merge loop: sort, shift the two lowest, push their parent
MergeLowest(nodes) ==
  LET sorted == SortByFreq(nodes)
  IN  Append(SubSeq(sorted, 3, Len(sorted)), ParentNode(sorted[1], sorted[2]))

RECURSIVE MergeLoop(_)
MergeLoop(nodes) ==
  IF Len(nodes) > 1 THEN MergeLoop(MergeLowest(nodes)) ELSE nodes[1]

buildHuffmanTree(freqTable) ==
  LET nodes == [k \in 1..Len(freqTable) |->
                  HuffmanNode(freqTable[k].char, freqTable[k].freq)]
  IN  IF Len(nodes) = 0 THEN NullTree
      ELSE IF Len(nodes) = 1 THEN nodes[1]
      ELSE MergeLoop(nodes)

\* a leaf keeps the empty code of a single-leaf tree
LeafCode_KeepsEmpty(code) == code

\* codes.set(char, code || '0') on a Map kept as a function char -> code
LeafCode(code) == IF Len(code) = 0 THEN <<"0">> ELSE code

CodesSet(codes, char, code) ==
  [c \in DOMAIN codes \cup {char} |-> IF c = char THEN code ELSE codes[c]]

\* both branches append '0'
RECURSIVE generateCodes_SameBit(_, _, _)
generateCodes_SameBit(root, code, codes) ==
  IF root.kind = "null" THEN codes
  ELSE IF root.kind = "leaf" THEN CodesSet(codes, root.char, LeafCode(code))
  ELSE generateCodes_SameBit(root.right, Append(code, "0"),
         generateCodes_SameBit(root.left, Append(code, "0"), codes))

\* the right branch passes its parent's code on unchanged
RECURSIVE generateCodes_RightKeepsCode(_, _, _)
generateCodes_RightKeepsCode(root, code, codes) ==
  IF root.kind = "null" THEN codes
  ELSE IF root.kind = "leaf" THEN CodesSet(codes, root.char, LeafCode(code))
  ELSE generateCodes_RightKeepsCode(root.right, code,
         generateCodes_RightKeepsCode(root.left, Append(code, "0"), codes))

RECURSIVE generateCodes(_, _, _)
generateCodes(root, code, codes) ==
  IF root.kind = "null" THEN codes
  ELSE IF root.kind = "leaf" THEN CodesSet(codes, root.char, LeafCode(code))
  ELSE generateCodes(root.right, Append(code, "1"),
                     generateCodes(root.left, Append(code, "0"), codes))

EmptyCodes == [c \in {} |-> <<>>]

\* compressed += codes.get(char) || '' for every char of the input
RECURSIVE HuffmanEncode(_, _)
HuffmanEncode(d, codes) ==
  IF Len(d) = 0 THEN <<>>
  ELSE (IF d[1] \in DOMAIN codes THEN codes[d[1]] ELSE <<>>)
         \o HuffmanEncode(Tail(d), codes)

\* JSON.stringify(Object.fromEntries(codes)).length: the braces, and for
\* each entry "key":"code", with a comma between entries
RECURSIVE EntriesLength(_, _)
EntriesLength(codes, chars) ==
  IF chars = {} THEN 0
  ELSE LET c == CHOOSE x \in chars : TRUE
       IN  Len(JsonString(<<c>>)) + 1 + Len(JsonString(codes[c]))
             + EntriesLength(codes, chars \ {c})

HeaderSize(codes) ==
  LET n == Cardinality(DOMAIN codes)
  IN  2 + EntriesLength(codes, DOMAIN codes) + (IF n > 1 THEN n - 1 ELSE 0)

\* the bytes are counted with Math.floor
CeilDiv8_Floor(n) == n \div 8

\* Math.ceil(n / 8)
CeilDiv8(n) == (n + 7) \div 8

\* a ratio that is clamped at zero when the payload grew
Ratio_ClampedAtZero(originalSize, compressedSize) ==
  [num |-> IF compressedSize > originalSize THEN 0
           ELSE (originalSize - compressedSize) * 100,
   den |-> originalSize]

\* compressionRatio = (originalSize - compressedSize) / originalSize * 100,
\* kept as the fraction num / den (den = 0: NaN or an infinity)
Ratio(originalSize, compressedSize) ==
  [num |-> (originalSize - compressedSize) * 100, den |-> originalSize]

CompressionResult(originalSize, compressedSize, name, compressedData, d) ==
  [originalSize |-> originalSize, compressedSize |-> compressedSize,
   compressionRatio |-> Ratio(originalSize, compressedSize),
   algorithm |-> name, compressedData |-> compressedData,
   originalData |-> d]

HuffmanCodes(d) ==
  generateCodes(buildHuffmanTree(buildFrequencyTable(d)), <<>>, EmptyCodes)

huffmanCompress(d) ==
  LET codes == HuffmanCodes(d)
      payload == HuffmanEncode(d, codes)
  IN  CompressionResult(BlobSize(d), CeilDiv8(Len(payload)) + HeaderSize(codes),
                        "Huffman Coding", payload, d)

(* -------------------------- run-length encoding ----------------------- *)

\* the inner while loop without the test count < 255
RunCount_Uncapped(d, at, count) ==
  LET LoopTest(n) == at + n < Len(d) /\ d[at + n + 1] = d[at + 1]
  IN  CHOOSE n \in count..Max(count, Len(d)) :
        ~LoopTest(n) /\ \A m \in count..(n - 1) : LoopTest(m)

\* the inner while loop: count grows while the next symbol repeats
\* currentChar and count is below the cap; its value is the first count,
\* from the given one on, at which the loop test fails (stated without
\* recursion so that a run of 255 symbols evaluates in a shallow stack)
RunCount(d, at, count) ==
  LET LoopTest(n) ==
        at + n < Len(d) /\ d[at + n + 1] = d[at + 1] /\ n < maxRun
  IN  CHOOSE n \in count..Max(count, maxRun) :
        ~LoopTest(n) /\ \A m \in count..(n - 1) : LoopTest(m)

\* every repeated symbol is written as count and symbol
UsesCountForm_AnyRepeat(currentChar, count) == count > 1

\* every run, a single symbol included, is written as count and symbol
UsesCountForm_EveryRun(currentChar, count) == TRUE

\* the run is written as count and symbol when count > 3, or count > 1 and
\* the symbol is non-alphanumeric
UsesCountForm(currentChar, count) ==
  count > 3 \/ (count > 1 /\ IsNonAlphanumeric(currentChar))

\* what one pass of the outer loop appends to compressed
RleToken(d, at) ==
  LET currentChar == d[at + 1]
      count == RunCount(d, at, 1)
  IN  IF UsesCountForm(currentChar, count)
      THEN NumberToString(count) \o <<currentChar>>
      ELSE Repeat(currentChar, count)

\* the text the while loop of rleCompress builds from cursor `at` on
RECURSIVE rleEncode(_, _)
rleEncode(d, at) ==
  IF at < Len(d)
  THEN RleToken(d, at) \o rleEncode(d, at + RunCount(d, at, 1))
  ELSE <<>>

\* a call ends by returning a value or by throwing
Return(value) == [kind |-> "return", value |-> value, error |-> "none"]

Throw(error) == [kind |-> "throw", value |-> <<>>, error |-> error]

\* the count is read from one digit only
DigitsEnd_OneDigit(s, at) == at + 1

\* 0-based index of the first non-digit at or after `at` (Len(s) if none)
RECURSIVE DigitsEnd(_, _)
DigitsEnd(s, at) ==
  IF at < Len(s) /\ IsDigit(s[at + 1]) THEN DigitsEnd(s, at + 1) ELSE at

\* rleDecompress: a maximal digit run is a count for the symbol after it;
\* char.repeat(count) on the undefined symbol past the end is a TypeError
RECURSIVE RleDecodeLoop(_, _, _)
RleDecodeLoop(s, at, decompressed) ==
  IF at >= Len(s) THEN Return(decompressed)
  ELSE IF IsDigit(s[at + 1])
  THEN LET stop == DigitsEnd(s, at)
           count == parseInt(Substring(s, at, stop))
       IN  IF stop >= Len(s) THEN Throw("TypeError")
           ELSE RleDecodeLoop(s, stop + 1,
                              decompressed \o Repeat(s[stop + 1], count))
  ELSE RleDecodeLoop(s, at + 1, Append(decompressed, s[at + 1]))

rleDecompress(s) == RleDecodeLoop(s, 0, <<>>)

(* -------------------------------- LZ77 -------------------------------- *)

\* the inner while loop at window start j: window[j + matchLength] is
\* undefined, hence unequal, once j + matchLength leaves the window
RECURSIVE MatchLength(_, _, _, _)
MatchLength(window, lookAhead, j, matchLength) ==
  IF /\ matchLength < Len(lookAhead)
     /\ matchLength < lookAheadSize
     /\ j + matchLength < Len(window)
     /\ window[j + matchLength + 1] = lookAhead[matchLength + 1]
  THEN MatchLength(window, lookAhead, j, matchLength + 1)
  ELSE matchLength

\* a match that is as long as bestMatch replaces it too
BestMatchStep_LaterWins(window, lookAhead, j, bestMatch) ==
  LET matchLength == MatchLength(window, lookAhead, j, 0)
  IN  IF matchLength > 0 /\ matchLength >= bestMatch.length
      THEN [offset |-> Len(window) - j, length |-> matchLength]
      ELSE bestMatch

\* the offset is the window start j itself
BestMatchStep_OffsetIsStart(window, lookAhead, j, bestMatch) ==
  LET matchLength == MatchLength(window, lookAhead, j, 0)
  IN  IF matchLength > bestMatch.length
      THEN [offset |-> j, length |-> matchLength]
      ELSE bestMatch

\* the body of the for loop over j: a strictly longer match replaces
\* bestMatch
BestMatchStep(window, lookAhead, j, bestMatch) ==
  LET matchLength == MatchLength(window, lookAhead, j, 0)
  IN  IF matchLength > bestMatch.length
      THEN [offset |-> Len(window) - j, length |-> matchLength]
      ELSE bestMatch

\* the passes j = from .. to - 1 of the for loop, in ascending order (the
\* range is halved so that a window of 4096 symbols evaluates in a shallow
\* recursion)
RECURSIVE BestMatchRange(_, _, _, _, _)
BestMatchRange(window, lookAhead, from, to, bestMatch) ==
  IF from >= to THEN bestMatch
  ELSE IF to = from + 1 THEN BestMatchStep(window, lookAhead, from, bestMatch)
  ELSE LET mid == (from + to) \div 2
           firstHalf == BestMatchRange(window, lookAhead, from, mid, bestMatch)
       IN  \* the test evaluates firstHalf before the later passes start
           IF firstHalf.length >= 0
           THEN BestMatchRange(window, lookAhead, mid, to, firstHalf)
           ELSE firstHalf

\* the for loop over j, from j to the end of the window
BestMatchFrom(window, lookAhead, j, bestMatch) ==
  BestMatchRange(window, lookAhead, j, Len(window), bestMatch)

\* the window is the whole input before the cursor
BestMatch_WholePrefix(d, at) ==
  LET windowStart == 0
      window == Substring(d, windowStart, at)
      lookAhead == Substring(d, at, at + lookAheadSize)
  IN  BestMatchFrom(window, lookAhead, 0, [offset |-> 0, length |-> 0])

\* windowStart = Math.max(0, i - windowSize); the window and the look-ahead
\* are substrings of the input
BestMatch(d, at) ==
  LET windowStart == Max(0, at - windowSize)
      window == Substring(d, windowStart, at)
      lookAhead == Substring(d, at, at + lookAheadSize)
  IN  BestMatchFrom(window, lookAhead, 0, [offset |-> 0, length |-> 0])

\* the triple pushed at cursor `at`; nextChar is '' once the input is used up
Lz77Token(d, at) ==
  LET bestMatch == BestMatch(d, at)
  IN  [offset |-> bestMatch.offset, length |-> bestMatch.length,
       nextChar |-> IF at + bestMatch.length < Len(d)
                    THEN <<d[at + bestMatch.length + 1]>> ELSE <<>>]

\* i += bestMatch.length, without the floor of one
Lz77Advance_NoFloor(at, token) == at + token.length

\* i += Math.max(1, bestMatch.length)
Lz77Advance(at, token) == at + Max(1, token.length)

\* JSON.stringify of the triple array
KeyOffset ==
  <<"{", Quote, "o", "f", "f", "s", "e", "t", Quote, ":">>

KeyLength ==
  <<",", Quote, "l", "e", "n", "g", "t", "h", Quote, ":">>

KeyNextChar ==
  <<",", Quote, "n", "e", "x", "t", "C", "h", "a", "r", Quote, ":">>

JsonToken(token) ==
  KeyOffset \o NumberToString(token.offset)
    \o KeyLength \o NumberToString(token.length)
    \o KeyNextChar \o JsonString(token.nextChar) \o <<"}">>

\* the triples from + 1 .. to of the array, comma-separated (the range is
\* halved so that a long array evaluates in a shallow recursion)
RECURSIVE JsonTokensBetween(_, _, _)
JsonTokensBetween(tokens, from, to) ==
  IF from >= to THEN <<>>
  ELSE IF to = from + 1 THEN JsonToken(tokens[to])
  ELSE LET mid == (from + to) \div 2
       IN  JsonTokensBetween(tokens, from, mid) \o <<",">>
             \o JsonTokensBetween(tokens, mid, to)

JsonTokens(tokens) == JsonTokensBetween(tokens, 0, Len(tokens))

JsonStringify(tokens) == <<"[">> \o JsonTokens(tokens) \o <<"]">>

\* JSON.parse of such a text, positions 1-based; each parser answers
\* [ok, value, next]
Parsed(value, next) == [ok |-> TRUE, value |-> value, next |-> next]

NotParsed == [ok |-> FALSE, value |-> <<>>, next |-> 0]

HasLiteral(s, p, lit) ==
  p + Len(lit) - 1 <= Len(s) /\ SubSeq(s, p, p + Len(lit) - 1) = lit

\* a JSON number without sign, fraction or exponent; no leading zero
ParseNumber(s, p) ==
  LET stop == DigitsEnd(s, p - 1) + 1
  IN  IF stop = p \/ (s[p] = "0" /\ stop > p + 1) THEN NotParsed
      ELSE [ok |-> TRUE, value |-> parseInt(SubSeq(s, p, stop - 1)),
            next |-> stop]

\* the body of a JSON string up to its closing quote; of the escapes only
\* those JsonEscape writes are read
RECURSIVE ParseStringBody(_, _, _)
ParseStringBody(s, p, acc) ==
  IF p > Len(s) THEN NotParsed
  ELSE IF s[p] = Quote THEN Parsed(acc, p + 1)
  ELSE IF s[p] = Backslash
  THEN IF p + 1 <= Len(s) /\ s[p + 1] \in {Quote, Backslash}
       THEN ParseStringBody(s, p + 2, Append(acc, s[p + 1]))
       ELSE NotParsed
  ELSE ParseStringBody(s, p + 1, Append(acc, s[p]))

ParseString(s, p) ==
  IF p <= Len(s) /\ s[p] = Quote THEN ParseStringBody(s, p + 1, <<>>)
  ELSE NotParsed

ParseToken(s, p) ==
  IF ~HasLiteral(s, p, KeyOffset) THEN NotParsed
  ELSE LET offset == ParseNumber(s, p + Len(KeyOffset))
  IN  IF ~offset.ok \/ ~HasLiteral(s, offset.next, KeyLength) THEN NotParsed
  ELSE LET length == ParseNumber(s, offset.next + Len(KeyLength))
  IN  IF ~length.ok \/ ~HasLiteral(s, length.next, KeyNextChar) THEN NotParsed
  ELSE LET nextChar == ParseString(s, length.next + Len(KeyNextChar))
  IN  IF ~nextChar.ok \/ ~HasLiteral(s, nextChar.next, <<"}">>) THEN NotParsed
  ELSE Parsed([offset |-> offset.value, length |-> length.value,
               nextChar |-> nextChar.value], nextChar.next + 1)

RECURSIVE ParseTokens(_, _, _)
ParseTokens(s, p, acc) ==
  LET token == ParseToken(s, p)
  IN  IF ~token.ok \/ token.next > Len(s) THEN NotParsed
      ELSE IF s[token.next] = "," 
      THEN ParseTokens(s, token.next + 1, Append(acc, token.value))
      ELSE IF s[token.next] = "]" /\ token.next = Len(s)
      THEN Parsed(Append(acc, token.value), token.next + 1)
      ELSE NotParsed

JsonParse(s) ==
  IF s = <<"[", "]">> THEN Parsed(<<>>, 3)
  ELSE IF HasLiteral(s, 1, <<"[">>) THEN ParseTokens(s, 2, <<>>)
  ELSE NotParsed

\* the copy reads the output as it was before the copy began
RECURSIVE SnapshotCopy(_, _, _, _)
SnapshotCopy(source, start, k, length) ==
  IF k < length
  THEN CharAtText(source, start + k) \o SnapshotCopy(source, start, k + 1, length)
  ELSE <<>>

CopyLoop_FromSnapshot(decompressed, start, k, length) ==
  decompressed \o SnapshotCopy(decompressed, start, k, length)

\* the copy loop: decompressed += decompressed[start + k], one unit a time
RECURSIVE CopyLoop(_, _, _, _)
CopyLoop(decompressed, start, k, length) ==
  IF k < length
  THEN CopyLoop(decompressed \o CharAtText(decompressed, start + k),
                start, k + 1, length)
  ELSE decompressed

\* the body of the for loop over the tokens
ReplayToken(decompressed, token) ==
  LET copied == IF token.length > 0
                THEN CopyLoop(decompressed, Len(decompressed) - token.offset,
                              0, token.length)
                ELSE decompressed
  IN  IF Len(token.nextChar) > 0 THEN copied \o token.nextChar ELSE copied

RECURSIVE ReplayTokens(_, _)
ReplayTokens(decompressed, tokens) ==
  IF Len(tokens) = 0 THEN decompressed
  ELSE ReplayTokens(ReplayToken(decompressed, tokens[1]), Tail(tokens))

lz77Decompress(s) ==
  LET tokens == JsonParse(s)
  IN  IF tokens.ok THEN Return(ReplayTokens(<<>>, tokens.value))
      ELSE Throw("SyntaxError")

(* --------------------------- decompressData --------------------------- *)

HuffmanMessage ==
  <<"H", "u", "f", "f", "m", "a", "n", " ", "d", "e", "c", "o", "m", "p",
    "r", "e", "s", "s", "i", "o", "n", " ", "r", "e", "q", "u", "i", "r",
    "e", "s", " ", "t", "h", "e", " ", "o", "r", "i", "g", "i", "n", "a",
    "l", " ", "c", "o", "d", "e", " ", "t", "a", "b", "l", "e">>

\* an unknown name falls through to the RLE decoder
decompressData_DefaultToRle(compressedData, name) ==
  CASE name = "LZ77" -> lz77Decompress(compressedData)
    [] name = "Huffman Coding" -> Return(HuffmanMessage)
    [] OTHER -> rleDecompress(compressedData)

decompressData(compressedData, name) ==
  CASE name = "Run-Length Encoding" -> rleDecompress(compressedData)
    [] name = "LZ77" -> lz77Decompress(compressedData)
    [] name = "Huffman Coding" -> Return(HuffmanMessage)
    [] OTHER -> Throw("Unsupported algorithm")

(* ---------------------- result assembly of the loops ------------------ *)

rleResult(d, compressedText) ==
  CompressionResult(BlobSize(d), BlobSize(compressedText),
                    "Run-Length Encoding", compressedText, d)

lz77Result(d, tokens) ==
  CompressionResult(BlobSize(d), Len(tokens) * tripleCost,
                    "LZ77", JsonStringify(tokens), d)

(* --------------------------- progress events ------------------------- *)

\* what onProgress receives: the stage and the percentage, kept as the exact
\* fraction num / den (the message text is left out)
ProgressEvent(stage, num, den) == [stage |-> stage, num |-> num, den |-> den]

\* the five milestones of huffmanCompress
HuffmanEvents ==
  << ProgressEvent("Analyzing", 10, 1), ProgressEvent("Building Tree", 30, 1),
     ProgressEvent("Generating Codes", 50, 1),
     ProgressEvent("Compressing", 70, 1), ProgressEvent("Complete", 100, 1) >>

\* the loop reports 20 + (i / data.length) * 100
RleProgress_FullScale(at, n) == ProgressEvent("Compressing", 20 * n + 100 * at, n)

\* 20 + (i / data.length) * 60 at the head of a pass of the RLE loop
RleProgress(at, n) == ProgressEvent("Compressing", 20 * n + 60 * at, n)

\* 10 + (i / data.length) * 80 at the head of a pass of the LZ77 loop
Lz77Progress(at, n) == ProgressEvent("Compressing", 10 * n + 80 * at, n)

(* ----------------------------- state machine -------------------------- *)

VARIABLES
  pc,          \* "idle", the running encoder "rle" / "lz77", "returned"
               \* (an encoder has returned its result), "decoded"
  data,        \* the input string of the encoder call
  i,           \* the cursor of the running encode loop
  compressed,  \* the accumulator of the running encode loop
  codes,       \* the code table huffmanCompress generated in its call
  events,      \* the progress events handed to onProgress, in order
  result,      \* the CompressionResult the encoder returned
  payload,     \* the compressedData handed to decompressData
  decodeName,  \* the algorithm name handed to decompressData
  decoded,     \* how the decompressData call ended
  currentState,        \* the wizard step of App
  selectedFile,        \* the FileInfo App holds, NoFile for null
  selectedAlgorithm,   \* the algorithm tag App holds
  compressionResult,   \* the result App holds, NoResult for null
  processingProgress,  \* the last progress event App received
  hasError,            \* the error flag of App
  pendingReads,        \* the files whose FileReader has not fired onload yet
  running              \* startCompression is between its first set calls
                       \* and the end of its try block

codecVars ==
  <<pc, data, i, compressed, codes, events, result, payload, decodeName,
    decoded>>

wizardVars ==
  <<currentState, selectedFile, selectedAlgorithm, compressionResult,
    processingProgress, hasError, pendingReads, running>>

vars ==
  <<pc, data, i, compressed, codes, events, result, payload, decodeName,
    decoded, currentState, selectedFile, selectedAlgorithm,
    compressionResult, processingProgress, hasError, pendingReads, running>>

Inputs == StringsUpTo(Alphabet, MaxLen)

\* inputs longer than the window: a 'b', a run of 'a' and a second 'b' that
\* lies windowSize + 1, ... symbols after the first, out of the window's reach
Lz77LongInputs ==
  {<<"b">> \o Repeat("a", windowSize - 1 + k) \o <<"b">> :
     k \in 1..MaxOverWindow}

\* runs longer than the cap of one RLE token, of a letter and of a
\* non-alphanumeric symbol
RleLongInputs ==
  {Repeat(c, maxRun + k) : c \in {"a", Quote}, k \in 1..MaxOverRun}

\* no encoder has returned yet
NoResult == CompressionResult(0, 0, "none", <<>>, <<>>)

\* App holds no file (selectedFile is null)
NoFile == [name |-> <<>>, data |-> <<>>]

\* decompressData has not been called yet
NotCalled == [kind |-> "none", value |-> <<>>, error |-> "none"]

AlgorithmNames == {"Huffman Coding", "Run-Length Encoding", "LZ77"}

\* names decompressData does not know; "huffman" is the wizard's tag
OtherNames == {"huffman", "Deflate"}

\* hand-made triple lists, well-formed JSON with any offsets and lengths
ForeignTokens ==
  [offset : 0..MaxField, length : 0..MaxField, nextChar : {<<>>, <<"a">>}]

ForeignTokenLists == StringsUpTo(ForeignTokens, MaxTokens)

Init ==
  /\ pc = "idle"
  /\ data = <<>>
  /\ i = 0
  /\ compressed = <<>>
  /\ codes = EmptyCodes
  /\ events = <<>>
  /\ result = NoResult
  /\ payload = <<>>
  /\ decodeName = "none"
  /\ decoded = NotCalled
  /\ currentState = "upload"
  /\ selectedFile = NoFile
  /\ selectedAlgorithm = "huffman"
  /\ compressionResult = NoResult
  /\ processingProgress = ProgressEvent("Initializing", 0, 1)
  /\ hasError = FALSE
  /\ pendingReads = {}
  /\ running = FALSE

\* huffmanCompress(d): no loop state is shared, the call is one step
CallHuffman ==
  /\ pc = "idle"
  /\ \E d \in Inputs :
       /\ data' = d
       /\ codes' = HuffmanCodes(d)
       /\ events' = HuffmanEvents
       /\ result' = huffmanCompress(d)
  /\ pc' = "returned"
  /\ UNCHANGED <<i, compressed, payload, decodeName, decoded>>
  /\ UNCHANGED wizardVars

\* rleCompress(d) up to its while loop
CallRle ==
  /\ pc = "idle"
  /\ \E d \in Inputs \cup RleLongInputs : data' = d
  /\ pc' = "rle"
  /\ i' = 0
  /\ compressed' = <<>>
  /\ events' = <<ProgressEvent("Analyzing", 20, 1)>>
  /\ UNCHANGED <<codes, result, payload, decodeName, decoded>>
  /\ UNCHANGED wizardVars

\* one pass of the while loop of rleCompress
RleIteration ==
  /\ pc = "rle"
  /\ i < Len(data)
  /\ events' = Append(events, RleProgress(i, Len(data)))
  /\ compressed' = compressed \o RleToken(data, i)
  /\ i' = i + RunCount(data, i, 1)
  /\ UNCHANGED <<pc, data, codes, result, payload, decodeName, decoded>>
  /\ UNCHANGED wizardVars

\* rleCompress leaves the loop and returns
RleReturn ==
  /\ pc = "rle"
  /\ ~(i < Len(data))
  /\ events' = Append(events, ProgressEvent("Complete", 100, 1))
  /\ result' = rleResult(data, compressed)
  /\ pc' = "returned"
  /\ UNCHANGED <<data, i, compressed, codes, payload, decodeName, decoded>>
  /\ UNCHANGED wizardVars

\* lz77Compress(d) up to its while loop
CallLz77 ==
  /\ pc = "idle"
  /\ \E d \in Inputs : data' = d
  /\ pc' = "lz77"
  /\ i' = 0
  /\ compressed' = <<>>
  /\ events' = <<ProgressEvent("Initializing", 10, 1)>>
  /\ UNCHANGED <<codes, result, payload, decodeName, decoded>>
  /\ UNCHANGED wizardVars

\* one pass of the while loop of lz77Compress
Lz77Iteration ==
  /\ pc = "lz77"
  /\ i < Len(data)
  /\ events' = Append(events, Lz77Progress(i, Len(data)))
  /\ \E token \in {Lz77Token(data, i)} :
         /\ compressed' = Append(compressed, token)
         /\ i' = Lz77Advance(i, token)
  /\ UNCHANGED <<pc, data, codes, result, payload, decodeName, decoded>>
  /\ UNCHANGED wizardVars

\* lz77Compress leaves the loop and returns
Lz77Return ==
  /\ pc = "lz77"
  /\ ~(i < Len(data))
  /\ events' = Append(events, ProgressEvent("Complete", 100, 1))
  /\ result' = lz77Result(data, compressed)
  /\ pc' = "returned"
  /\ UNCHANGED <<data, i, compressed, codes, payload, decodeName, decoded>>
  /\ UNCHANGED wizardVars

\* decompressData on the payload an encoder returned: under the result's
\* own algorithm name (as handleDecompress calls it), under the Huffman
\* name, or under a name it does not know
DecompressResult ==
  /\ pc = "returned"
  /\ \E name \in {result.algorithm, "Huffman Coding"} \cup OtherNames :
       /\ decodeName' = name
       /\ payload' = result.compressedData
       /\ decoded' = decompressData(result.compressedData, name)
  /\ pc' = "decoded"
  /\ UNCHANGED <<data, i, compressed, codes, events, result>>
  /\ UNCHANGED wizardVars

\* decompressData(text, 'LZ77') on the JSON text of a hand-made triple list
DecompressTokens ==
  /\ pc = "idle"
  /\ \E tokens \in ForeignTokenLists :
       /\ payload' = JsonStringify(tokens)
       /\ decoded' = decompressData(JsonStringify(tokens), "LZ77")
  /\ decodeName' = "LZ77"
  /\ pc' = "decoded"
  /\ UNCHANGED <<data, i, compressed, codes, events, result>>
  /\ UNCHANGED wizardVars

Next ==
  \/ CallHuffman
  \/ CallRle
  \/ RleIteration
  \/ RleReturn
  \/ CallLz77
  \/ Lz77Iteration
  \/ Lz77Return
  \/ DecompressResult
  \/ DecompressTokens

Spec == Init /\ [][Next]_vars

\* lz77Compress(d) up to its while loop, on an input longer than the window
CallLz77Long ==
  /\ pc = "idle"
  /\ \E d \in Lz77LongInputs : data' = d
  /\ pc' = "lz77"
  /\ i' = 0
  /\ compressed' = <<>>
  /\ events' = <<ProgressEvent("Initializing", 10, 1)>>
  /\ UNCHANGED <<codes, result, payload, decodeName, decoded>>
  /\ UNCHANGED wizardVars

\* lz77Compress on the long inputs
LongNext ==
  \/ CallLz77Long
  \/ Lz77Iteration
  \/ Lz77Return

LongSpec == Init /\ [][LongNext]_vars

(* ------------------------------ the wizard ---------------------------- *)

\* the base64 characters, in the order of their values 0 .. 63
Base64Alphabet ==
  <<"A", "B", "C", "D", "E", "F", "G", "H", "I", "J", "K", "L", "M", "N",
    "O", "P", "Q", "R", "S", "T", "U", "V", "W", "X", "Y", "Z", "a", "b",
    "c", "d", "e", "f", "g", "h", "i", "j", "k", "l", "m", "n", "o", "p",
    "q", "r", "s", "t", "u", "v", "w", "x", "y", "z", "0", "1", "2", "3",
    "4", "5", "6", "7", "8", "9", "+", "/">>

IsBase64Char(c) == \E k \in 1..Len(Base64Alphabet) : Base64Alphabet[k] = c

Base64Value(c) ==
  (CHOOSE k \in 1..Len(Base64Alphabet) : Base64Alphabet[k] = c) - 1

\* the characters of code 32 .. 126, in the order of their codes (the grave
\* accent, code 96, is kept as the stand-in "\\x60")
AsciiPrintable ==
  <<" ", "!", "\"", "#", "$", "%", "&", "'", "(", ")", "*", "+", ",",
    "-", ".", "/", "0", "1", "2", "3", "4", "5", "6", "7", "8", "9", ":",
    ";", "<", "=", ">", "?", "@", "A", "B", "C", "D", "E", "F", "G", "H",
    "I", "J", "K", "L", "M", "N", "O", "P", "Q", "R", "S", "T", "U", "V",
    "W", "X", "Y", "Z", "[", "\\", "]", "^", "_", "\\x60", "a", "b", "c",
    "d", "e", "f", "g", "h", "i", "j", "k", "l", "m", "n", "o", "p", "q",
    "r", "s", "t", "u", "v", "w", "x", "y", "z", "{", "|", "}", "~">>

\* String.fromCharCode of a byte; a byte outside 32 .. 126 is kept as the
\* two-character stand-in "\\x"
fromCharCode(byte) ==
  IF byte \in 32..126 THEN AsciiPrintable[byte - 31] ELSE "\\x"

NotAsciiWhitespace(c) == c \notin {" ", "\t", "\n", "\f", "\r"}

\* the byte number k (from 0) that the base64 characters chars carry: the
\* group of four characters it lies in is a 24-bit number, characters
\* missing from the last group counting as 0
Base64Byte(chars, k) ==
  LET first == 4 * (k \div 3)
      Sextet(n) == IF first + n <= Len(chars)
                   THEN Base64Value(chars[first + n]) ELSE 0
      group == Sextet(1) * 262144 + Sextet(2) * 4096 + Sextet(3) * 64
                 + Sextet(4)
  IN  IF k % 3 = 0 THEN group \div 65536
      ELSE IF k % 3 = 1 THEN (group \div 256) % 256
      ELSE group % 256

\* atob: whitespace is dropped, one or two '=' are dropped from a text of a
\* length divisible by 4, a length of 1 modulo 4 or a character outside the
\* base64 alphabet throws, and every full 8 bits give one character
atob(text) ==
  LET stripped == SelectSeq(text, NotAsciiWhitespace)
      n == Len(stripped)
      padding == IF n % 4 # 0 \/ n = 0 THEN 0
                 ELSE IF stripped[n] # "=" THEN 0
                 ELSE IF stripped[n - 1] = "=" THEN 2 ELSE 1
      chars == SubSeq(stripped, 1, n - padding)
  IN  IF \/ Len(chars) % 4 = 1
         \/ \E k \in 1..Len(chars) : ~IsBase64Char(chars[k])
      THEN Throw("InvalidCharacterError")
      ELSE Return([k \in 1..((6 * Len(chars)) \div 8) |->
                     fromCharCode(Base64Byte(chars, k - 1))])

\* the text 'base64,' that startCompression looks for
Base64Marker == <<"b", "a", "s", "e", "6", "4", ",">>

\* s.includes(part)
Includes(s, part) ==
  \E k \in 0..(Len(s) - Len(part)) : SubSeq(s, k + 1, k + Len(part)) = part

\* s.split(',')[1] of a text that holds a comma: what lies between its
\* first comma and its second comma or its end
SplitSecond(s) ==
  LET commas == {k \in 1..Len(s) : s[k] = ","}
      first == CHOOSE k \in commas : \A m \in commas : k <= m
      later == {k \in commas : k > first} \cup {Len(s) + 1}
      second == CHOOSE k \in later : \A m \in later : k <= m
  IN  SubSeq(s, first + 1, second - 1)

\* fileData of startCompression; FileReader hands over a string, so the
\* TextDecoder branch is not taken
FileData(fileInfoData) ==
  IF Includes(fileInfoData, Base64Marker)
  THEN atob(SplitSecond(fileInfoData))
  ELSE Return(fileInfoData)

\* the triples of the whole while loop of lz77Compress, from cursor at on
RECURSIVE lz77Encode(_, _)
lz77Encode(d, at) ==
  IF at < Len(d)
  THEN LET token == Lz77Token(d, at)
       IN  <<token>> \o lz77Encode(d, Lz77Advance(at, token))
  ELSE <<>>

\* the switch of startCompression over the algorithm tag
CompressWith(algorithm, fileData) ==
  IF algorithm = "huffman" THEN Return(huffmanCompress(fileData))
  ELSE IF algorithm = "rle"
  THEN Return(rleResult(fileData, rleEncode(fileData, 0)))
  ELSE IF algorithm = "lz77"
  THEN Return(lz77Result(fileData, lz77Encode(fileData, 0)))
  ELSE Throw("Unsupported algorithm")

\* how the try block of startCompression ends for a file and a tag
TryCompression(file, algorithm) ==
  LET fileData == FileData(file.data)
  IN  IF fileData.kind = "throw" THEN fileData
      ELSE CompressWith(algorithm, fileData.value)

\* the tags AlgorithmSelector offers
AlgorithmTags == {"huffman", "rle", "lz77"}

\* the FileInfo records a FileReader can hand over: a text file, a text
\* file whose content holds 'base64,' before something atob rejects, and a
\* file read as a data URL
TextFile ==
  [name |-> <<"a", ".", "t", "x", "t">>, data |-> <<"a", "a", "b">>]

MarkerTextFile ==
  [name |-> <<"b", ".", "t", "x", "t">>,
   data |-> Base64Marker \o <<"a">>]

DataUrlFile ==
  [name |-> <<"c", ".", "l", "o", "g">>,
   data |->
      <<"d", "a", "t", "a", ":", "a", "p", "p", "l", "i", "c", "a", "t",
        "i", "o", "n", "/", "o", "c", "t", "e", "t", "-", "s", "t", "r",
        "e", "a", "m", ";", "b", "a", "s", "e", "6", "4", ",", "Y", "W",
        "I", "=">>]

WizardFiles == {TextFile, MarkerTextFile, DataUrlFile}

\* FileUpload.processFile on an accepted file: a FileReader is started; the
\* drop zone is on screen in the upload step only
StartFileRead ==
  /\ ~running
  /\ currentState = "upload"
  /\ Cardinality(pendingReads) < MaxReads
  /\ \E file \in WizardFiles \ pendingReads :
       pendingReads' = pendingReads \cup {file}
  /\ UNCHANGED <<currentState, selectedFile, selectedAlgorithm,
                 compressionResult, processingProgress, hasError, running>>
  /\ UNCHANGED codecVars

\* reader.onload of a started read: onFileSelect is App.handleFileSelect
FileReadCompletes ==
  /\ ~running
  /\ \E file \in pendingReads :
       /\ pendingReads' = pendingReads \ {file}
       /\ selectedFile' = file
  /\ currentState' = "algorithm"
  /\ UNCHANGED <<selectedAlgorithm, compressionResult, processingProgress,
                 hasError, running>>
  /\ UNCHANGED codecVars

\* handleAlgorithmChange, from the selector of the algorithm step
ChangeAlgorithm ==
  /\ ~running
  /\ currentState = "algorithm"
  /\ \E algorithm \in AlgorithmTags \ {selectedAlgorithm} :
       selectedAlgorithm' = algorithm
  /\ UNCHANGED <<currentState, selectedFile, compressionResult,
                 processingProgress, hasError, pendingReads, running>>
  /\ UNCHANGED codecVars

\* the Back button of the algorithm step
Back ==
  /\ ~running
  /\ currentState = "algorithm"
  /\ currentState' = "upload"
  /\ UNCHANGED <<selectedFile, selectedAlgorithm, compressionResult,
                 processingProgress, hasError, pendingReads, running>>
  /\ UNCHANGED codecVars

\* startCompression up to its try block; it returns at once without a file
StartCompression ==
  /\ ~running
  /\ currentState = "algorithm"
  /\ selectedFile # NoFile
  /\ currentState' = "processing"
  /\ hasError' = FALSE
  /\ running' = TRUE
  /\ UNCHANGED <<selectedFile, selectedAlgorithm, compressionResult,
                 processingProgress, pendingReads>>
  /\ UNCHANGED codecVars

\* the try block of startCompression runs to its end; the encoder's last
\* progress event is 'Complete'
CompressionSucceeds ==
  /\ running
  /\ TryCompression(selectedFile, selectedAlgorithm).kind = "return"
  /\ processingProgress' = ProgressEvent("Complete", 100, 1)
  /\ compressionResult' = TryCompression(selectedFile, selectedAlgorithm).value
  /\ currentState' = "results"
  /\ running' = FALSE
  /\ UNCHANGED <<selectedFile, selectedAlgorithm, hasError, pendingReads>>
  /\ UNCHANGED codecVars

\* a catch block that does not set the error flag
CompressionFails_KeepsFlag ==
  /\ running
  /\ TryCompression(selectedFile, selectedAlgorithm).kind = "throw"
  /\ processingProgress' = ProgressEvent("Error", 0, 1)
  /\ running' = FALSE
  /\ UNCHANGED <<currentState, selectedFile, selectedAlgorithm,
                 compressionResult, hasError, pendingReads>>
  /\ UNCHANGED codecVars

\* the try block of startCompression throws: the catch block
CompressionFails ==
  /\ running
  /\ TryCompression(selectedFile, selectedAlgorithm).kind = "throw"
  /\ hasError' = TRUE
  /\ processingProgress' = ProgressEvent("Error", 0, 1)
  /\ running' = FALSE
  /\ UNCHANGED <<currentState, selectedFile, selectedAlgorithm,
                 compressionResult, pendingReads>>
  /\ UNCHANGED codecVars

\* a resetApp that keeps the selected file
resetApp_KeepsFile ==
  /\ ~running
  /\ \/ currentState = "processing" /\ hasError
     \/ currentState = "results" /\ compressionResult # NoResult
  /\ currentState' = "upload"
  /\ compressionResult' = NoResult
  /\ hasError' = FALSE
  /\ UNCHANGED <<selectedFile, selectedAlgorithm, processingProgress,
                 pendingReads, running>>
  /\ UNCHANGED codecVars

\* resetApp, from 'Start Over' of a failed processing step or from
\* 'Compress Another File' of the results step
resetApp ==
  /\ ~running
  /\ \/ currentState = "processing" /\ hasError
     \/ currentState = "results" /\ compressionResult # NoResult
  /\ currentState' = "upload"
  /\ selectedFile' = NoFile
  /\ compressionResult' = NoResult
  /\ hasError' = FALSE
  /\ UNCHANGED <<selectedAlgorithm, processingProgress, pendingReads,
                 running>>
  /\ UNCHANGED codecVars

WizardNext ==
  \/ StartFileRead
  \/ FileReadCompletes
  \/ ChangeAlgorithm
  \/ Back
  \/ StartCompression
  \/ CompressionSucceeds
  \/ CompressionFails
  \/ resetApp

WizardSpec == Init /\ [][WizardNext]_vars

(* ---------------- Huffman decoding, as section 4.2 specifies it ------- *)

\* the symbols whose (non-empty) code the bit-string carries at position p
CodesAt(bits, p, table) ==
  {c \in DOMAIN table : Len(table[c]) > 0 /\ HasLiteral(bits, p, table[c])}

\* walk the bit-string, matching the longest code at each position; a
\* position no code matches is malformed input
RECURSIVE HuffmanDecodeLoop(_, _, _, _)
HuffmanDecodeLoop(bits, p, table, out) ==
  IF p > Len(bits) THEN Return(out)
  ELSE LET found == CodesAt(bits, p, table)
       IN  IF found = {} THEN Throw("MalformedCompressedInput")
           ELSE LET c == CHOOSE x \in found :
                           \A y \in found : Len(table[y]) <= Len(table[x])
                IN  HuffmanDecodeLoop(bits, p + Len(table[c]), table,
                                      Append(out, c))

huffmanDecode(bits, table) == HuffmanDecodeLoop(bits, 1, table, <<>>)

(* ------------------------------- claims ------------------------------- *)

\* decompressData was handed the returned payload under the result's name
DecodedOwn(name) ==
  /\ pc = "decoded"
  /\ result.algorithm = name
  /\ decodeName = name
  /\ payload = result.compressedData

\* C1: LZ77 round-trip: for every input x, decompressData applied to the
\* compressedData of lz77Compress(x) under the name 'LZ77' returns exactly x.
C1_Lz77RoundTrip ==
  DecodedOwn("LZ77") => decoded = Return(data)

\* C2: RLE round-trip: for every input x, digits included, decompressData
\* applied to the compressedData of rleCompress(x) under the name
\* 'Run-Length Encoding' returns exactly x.
C2_RleRoundTrip ==
  DecodedOwn("Run-Length Encoding") => decoded = Return(data)

HuffmanReturned == pc = "returned" /\ result.algorithm = "Huffman Coding"

\* C3: Huffman round-trip: decoding the payload huffmanCompress(x) returned
\* with the code table generated in that same call returns exactly x.
C3_HuffmanRoundTrip ==
  HuffmanReturned => huffmanDecode(result.compressedData, codes) = Return(data)

\* C3 witness: a returned Huffman call on an input of three distinct symbols
\* whose codes differ in length.
C3_Witness ==
  /\ HuffmanReturned
  /\ Cardinality(DOMAIN codes) = 3
  /\ \E a, b \in DOMAIN codes : Len(codes[a]) < Len(codes[b])
  /\ huffmanDecode(result.compressedData, codes) = Return(data)

\* s is a prefix of t (or equal to it)
IsPrefix(s, t) == Len(s) <= Len(t) /\ SubSeq(t, 1, Len(s)) = s

\* C4: prefix-free invariant: in the generated code table no symbol's code
\* is a prefix of, or equal to, another symbol's code.
C4_PrefixFree ==
  HuffmanReturned =>
    \A a, b \in DOMAIN codes : a # b => ~IsPrefix(codes[a], codes[b])

\* C4 witness: a table of four symbols, two of them with codes of
\* different lengths.
C4_Witness ==
  /\ HuffmanReturned
  /\ Cardinality(DOMAIN codes) = 4
  /\ \E a, b \in DOMAIN codes : Len(codes[a]) < Len(codes[b])

\* the cursor at which the k-th triple of `tokens` was pushed
RECURSIVE CursorOf(_, _)
CursorOf(tokens, k) ==
  IF k <= 1 THEN 0
  ELSE CursorOf(tokens, k - 1) + Max(1, tokens[k - 1].length)

\* length of the match of the look-ahead at `at` against the text starting
\* at `from` < at, read on into the look-ahead itself
RECURSIVE OverlapMatchLength(_, _, _, _)
OverlapMatchLength(d, at, from, m) ==
  IF /\ m < lookAheadSize
     /\ at + m < Len(d)
     /\ d[from + m + 1] = d[at + m + 1]
  THEN OverlapMatchLength(d, at, from, m + 1)
  ELSE m

LongestOverlapMatch(d, at) ==
  LET lengths == {OverlapMatchLength(d, at, from, 0) :
                    from \in Max(0, at - windowSize)..(at - 1)}
  IN  IF lengths = {} THEN 0
      ELSE CHOOSE m \in lengths : \A n \in lengths : n <= m

\* the triples of the LZ77 call that is running or has returned
Lz77Tokens == pc = "lz77" \/ result.algorithm = "LZ77"

\* C5: self-overlapping longest match: every emitted triple has the
\* greatest match length over all window starts, a match being allowed to
\* run past the cursor; 'aaaa' encodes as a literal 'a' and one
\* back-reference (offset 1, length 3).
C5_SelfOverlapLongest ==
  /\ Lz77Tokens =>
       \A k \in 1..Len(compressed) :
         compressed[k].length
           = LongestOverlapMatch(data, CursorOf(compressed, k))
  /\ (result.algorithm = "LZ77" /\ data = <<"a", "a", "a", "a">>) =>
       compressed = << [offset |-> 0, length |-> 0, nextChar |-> <<"a">>],
                       [offset |-> 1, length |-> 3, nextChar |-> <<>>] >>

\* C6: empty input: each encoder returns originalSize = 0, and
\* decompressData on the returned payload under the result's algorithm
\* name returns the empty string.
C6_EmptyInput ==
  /\ (pc = "returned" /\ data = <<>>) => result.originalSize = 0
  /\ \A name \in AlgorithmNames :
       (DecodedOwn(name) /\ data = <<>>) => decoded = Return(<<>>)

\* C7: decompressData under the name 'Huffman Coding' fails with an error
\* instead of returning a string.
C7_HuffmanDecodeFails ==
  (pc = "decoded" /\ decodeName = "Huffman Coding") => decoded.kind = "throw"

\* some triple with length > 0 has offset 0, or an offset larger than the
\* number of symbols output before it
RECURSIVE HasBadReference(_, _)
HasBadReference(tokens, out) ==
  /\ Len(tokens) > 0
  /\ \/ /\ tokens[1].length > 0
        /\ (tokens[1].offset = 0 \/ tokens[1].offset > Len(out))
     \/ HasBadReference(Tail(tokens), ReplayToken(out, tokens[1]))

\* C8: the LZ77 decoder fails with an error, returning no string, when a
\* triple with length > 0 has offset 0 or an offset beyond the output.
C8_Lz77DecodeRejects ==
  (/\ pc = "decoded"
   /\ decodeName = "LZ77"
   /\ JsonParse(payload).ok
   /\ HasBadReference(JsonParse(payload).value, <<>>))
    => decoded.kind = "throw"

\* C9: LZ77 encoder termination: every pass of the encode loop pushes one
\* triple of length >= 0 and advances the cursor by max(1, length) >= 1
\* without passing the end, so n symbols take at most n passes and triples.
C9_Lz77Terminates ==
  [][(pc = "lz77" /\ compressed' # compressed) =>
       LET token == compressed'[Len(compressed')]
       IN  /\ Len(compressed') = Len(compressed) + 1
           /\ token.length >= 0
           /\ i' = i + Max(1, token.length)
           /\ i' >= i + 1
           /\ i' <= Len(data)
           /\ Len(compressed') <= i']_vars

\* C9 witness: the loop has consumed an input of at least four symbols
\* with a zero-length triple and a triple of length >= 2.
C9_Witness ==
  /\ pc = "lz77"
  /\ i = Len(data)
  /\ Len(data) >= 4
  /\ \E k \in 1..Len(compressed) : compressed[k].length = 0
  /\ \E k \in 1..Len(compressed) : compressed[k].length >= 2

\* C10: single-symbol alphabet: for k >= 1 copies of one symbol s the code
\* table is exactly {s -> '0'} and the payload is k characters '0'.
C10_SingleSymbol ==
  (HuffmanReturned /\ Len(data) >= 1
     /\ \A k \in 1..Len(data) : data[k] = data[1]) =>
    /\ codes = (data[1] :> <<"0">>)
    /\ result.compressedData = Repeat("0", Len(data))

\* C10 witness: a returned Huffman call on three copies of one symbol.
C10_Witness ==
  /\ HuffmanReturned
  /\ data = <<"b", "b", "b">>
  /\ result.compressedData = <<"0", "0", "0">>

\* C11: RLE encode policy: a scanned run longer than 3 is written as count
\* and symbol, a run of 2 or 3 in that form only for a non-alphanumeric
\* symbol, every other run literally; 'aaaabbbccc' encodes to '4abbbccc'.
C11_RlePolicy ==
  /\ rleEncode(<<"a", "a", "a", "a", "b", "b", "b", "c", "c", "c">>, 0)
       = <<"4", "a", "b", "b", "b", "c", "c", "c">>
  /\ [][(pc = "rle" /\ i' # i) =>
          LET c == data[i + 1]
              n == i' - i
              counted == n > 3 \/ (n \in 2..3 /\ c \notin (Letters \cup Digits))
          IN  /\ \A k \in (i + 1)..i' : data[k] = c
              /\ i' = Len(data) \/ data[i' + 1] # c \/ n = maxRun
              /\ i = 0 \/ data[i] # c \/ i >= maxRun
              /\ compressed' = compressed \o
                   (IF counted THEN NumberToString(n) \o <<c>>
                    ELSE Repeat(c, n))]_vars

\* C11 witness: the loop has written a counted letter run, a counted
\* non-alphanumeric pair and a literal letter pair.
C11_Witness ==
  /\ pc = "rle"
  /\ data = <<"a", "a", "a", "a", Quote, Quote>>
  /\ i = Len(data)
  /\ compressed = <<"4", "a", "2", Quote>>

\* the symbols of d are pairwise distinct
PairwiseDistinct(d) == \A j, k \in 1..Len(d) : j # k => d[j] # d[k]

\* C12: compression ratio sign: for a non-empty input the ratio is
\* (originalSize - compressedSize) / originalSize * 100, negative exactly
\* when compressedSize > originalSize and never clamped; LZ77 charges 6 per
\* triple, so n pairwise-distinct symbols give n triples, size 6n and a
\* negative ratio.
C12_RatioSign ==
  (pc = "returned" /\ Len(data) > 0) =>
    LET o == result.originalSize
        c == result.compressedSize
        ratio == result.compressionRatio
    IN  /\ o > 0
        /\ ratio.den = o
        /\ ratio.num = (o - c) * 100
        /\ (ratio.num < 0) <=> (c > o)
        /\ result.algorithm = "LZ77" =>
             /\ c = 6 * Len(compressed)
             /\ PairwiseDistinct(data) =>
                  /\ Len(compressed) = Len(data)
                  /\ c = 6 * Len(data)
                  /\ ratio.num < 0

\* C12 witness: LZ77 has returned for four pairwise-distinct symbols with
\* compressedSize 24 and a negative ratio.
C12_Witness ==
  /\ pc = "returned"
  /\ result.algorithm = "LZ77"
  /\ Len(data) = 4
  /\ PairwiseDistinct(data)
  /\ result.compressedSize = 24
  /\ result.compressionRatio = [num |-> -2000, den |-> 4]

\* C13: decompressData under any name other than the three algorithm names
\* throws an unsupported-algorithm error, whatever the payload.
C13_UnknownNameThrows ==
  (pc = "decoded" /\ decodeName \notin AlgorithmNames) =>
    decoded = Throw("Unsupported algorithm")

\* C13 witness: decompressData was called under the name 'Deflate' on a
\* payload the RLE decoder would have decoded.
C13_Witness ==
  /\ pc = "decoded"
  /\ decodeName = "Deflate"
  /\ payload = <<"4", "a">>
  /\ decoded.kind = "throw"

\* event e reports no more than event f
NoMoreThan(e, f) == e.num * f.den <= f.num * e.den

\* C14: progress ordering: the percentages handed to onProgress never
\* decrease and lie in [0, 100]; the one 'Complete' event, at 100, is the
\* last event and has been delivered when the result is returned.
C14_ProgressOrdered ==
  /\ \A k \in 1..Len(events) :
       /\ events[k].den > 0
       /\ 0 <= events[k].num
       /\ events[k].num <= 100 * events[k].den
       /\ k < Len(events) => NoMoreThan(events[k], events[k + 1])
       /\ events[k].stage = "Complete" =>
            /\ k = Len(events)
            /\ events[k].num = 100 * events[k].den
            /\ pc \in {"returned", "decoded"}
  /\ result.algorithm \in AlgorithmNames =>
       /\ Len(events) > 0
       /\ events[Len(events)].stage = "Complete"

\* C14 witness: rleCompress has returned after three passes of its loop,
\* the last of them reported above 60 percent.
C14_Witness ==
  /\ pc = "returned"
  /\ result.algorithm = "Run-Length Encoding"
  /\ Len(events) = 5
  /\ events[4].num > 60 * events[4].den
  /\ events[5] = ProgressEvent("Complete", 100, 1)

\* the window starts j whose match with the look-ahead at `at`, as the
\* encoder's inner loop measures it, is of the greatest length
BestStarts(d, at) ==
  LET window == Substring(d, Max(0, at - windowSize), at)
      lookAhead == Substring(d, at, at + lookAheadSize)
      starts == 0..(Len(window) - 1)
  IN  {j \in starts :
         \A k \in starts : MatchLength(window, lookAhead, k, 0)
                             <= MatchLength(window, lookAhead, j, 0)}

SetMax(S) == CHOOSE x \in S : \A y \in S : y <= x

SetMin(S) == CHOOSE x \in S : \A y \in S : x <= y

\* the distance from the cursor `at` back to the window start j
OffsetOfStart(d, at, j) == (at - Max(0, at - windowSize)) - j

\* C15 (as claimed): LZ77 tie-break: among the window starts that give a
\* match of the greatest length the emitted triple uses the most recent
\* one, the smallest offset.
C15_TieSmallestOffset ==
  [][(pc = "lz77" /\ i' # i) =>
       LET token == compressed'[Len(compressed')]
       IN  token.length > 0 =>
             token.offset = OffsetOfStart(data, i, SetMax(BestStarts(data, i)))]_vars

\* C15 (amended): among the window starts that give a match of the greatest
\* length the emitted triple uses the earliest one, the largest offset.
C15_TieLargestOffset ==
  [][(pc = "lz77" /\ i' # i) =>
       LET token == compressed'[Len(compressed')]
       IN  token.length > 0 =>
             /\ token.length
                  = MatchLength(Substring(data, Max(0, i - windowSize), i),
                                Substring(data, i, i + lookAheadSize),
                                SetMin(BestStarts(data, i)), 0)
             /\ token.offset
                  = OffsetOfStart(data, i, SetMin(BestStarts(data, i)))]_vars

\* C15 witness: the triple pushed last had two window starts of the same
\* greatest length to choose from and took the larger offset.
C15_Witness ==
  /\ pc = "lz77"
  /\ data = <<"a", "a", "a">>
  /\ i = 3
  /\ compressed[3] = [offset |-> 2, length |-> 1, nextChar |-> <<>>]

\* the text the first k triples replay to
OutputAfter(tokens, k) == ReplayTokens(<<>>, SubSeq(tokens, 1, k))

\* C16: decoder replay supports self-overlap: a triple with
\* length > offset >= 1, applied to an output of at least offset symbols,
\* appends length symbols, each equal to the symbol offset positions before
\* it in the growing output, and then nextChar if present; 'ab' followed
\* by (2, 5, absent) becomes 'abababa'.
C16_ReplaySelfOverlap ==
  /\ ReplayToken(<<"a", "b">>, [offset |-> 2, length |-> 5, nextChar |-> <<>>])
       = <<"a", "b", "a", "b", "a", "b", "a">>
  /\ (pc = "decoded" /\ decodeName = "LZ77" /\ result.algorithm = "none") =>
       LET tokens == JsonParse(payload).value
       IN  /\ JsonParse(payload).ok
           /\ decoded = Return(OutputAfter(tokens, Len(tokens)))
           /\ \A k \in 1..Len(tokens) :
                LET before == OutputAfter(tokens, k - 1)
                    after == OutputAfter(tokens, k)
                    t == tokens[k]
                    n == Len(before)
                IN  (t.length > t.offset /\ t.offset >= 1 /\ n >= t.offset) =>
                      /\ Len(after) = n + t.length + Len(t.nextChar)
                      /\ SubSeq(after, 1, n) = before
                      /\ \A m \in 1..t.length :
                           after[n + m] = after[n + m - t.offset]
                      /\ SubSeq(after, n + t.length + 1, Len(after))
                           = t.nextChar

\* C16 witness: the decoder has replayed a literal 'a' and then a triple of
\* offset 1, length 2 and next symbol 'a' into 'aaaa'.
C16_Witness ==
  /\ pc = "decoded"
  /\ decodeName = "LZ77"
  /\ result.algorithm = "none"
  /\ JsonParse(payload).value
       = << [offset |-> 0, length |-> 0, nextChar |-> <<"a">>],
            [offset |-> 1, length |-> 2, nextChar |-> <<"a">>] >>
  /\ decoded = Return(<<"a", "a", "a", "a">>)

\* C17: every triple lz77Compress emits for an input longer than the window
\* has an offset between 0 and windowSize and a length between 0 and
\* lookAheadSize.
C17_TripleBounds ==
  (Lz77Tokens /\ Len(data) > windowSize) =>
    \A k \in 1..Len(compressed) :
      /\ 0 <= compressed[k].offset
      /\ compressed[k].offset <= windowSize
      /\ 0 <= compressed[k].length
      /\ compressed[k].length <= lookAheadSize

\* an input longer than the window is encoded: a match has been cut at
\* lookAheadSize, and the last 'b', whose only earlier copy lies more than
\* windowSize back, went out as a literal
C17_Witness ==
  /\ result.algorithm = "LZ77"
  /\ Len(data) > windowSize
  /\ data[1] = "b"
  /\ \E k \in 1..Len(compressed) : compressed[k].length = lookAheadSize
  /\ compressed[Len(compressed)]
       = [offset |-> 0, length |-> 0, nextChar |-> <<"b">>]

\* the number of symbols before the run that holds position at + 1 of d
RunStart(d, at) ==
  SetMin({s \in 0..at : \A k \in (s + 1)..(at + 1) : d[k] = d[at + 1]})

\* the number of symbols up to the end of the run that holds position at + 1
RunEnd(d, at) ==
  SetMin({e \in (at + 1)..Len(d) : e = Len(d) \/ d[e + 1] # d[at + 1]})

\* C20: RLE run cap: every count rleCompress writes is between 2 and 255;
\* the tokens of a run follow one another from the run's start, each covers
\* the rest of the run up to 255 symbols, so a run of more than 255 symbols
\* is split into tokens whose covered lengths sum to the run length.
C20_RunCap ==
  [][(pc = "rle" /\ i' # i) =>
       LET c == data[i + 1]
           n == i' - i
           start == RunStart(data, i)
           end == RunEnd(data, i)
       IN  /\ n >= 1 /\ n <= maxRun
           /\ (i - start) % maxRun = 0
           /\ n = Min(maxRun, end - i)
           /\ UsesCountForm(c, n) =>
                 /\ n >= 2
                 /\ compressed' = compressed \o NumberToString(n) \o <<c>>]_vars

\* C20 witness: a run of 257 'a' has been written as the token 255a and a
\* second token covering the two symbols left.
C20_Witness ==
  /\ pc = "rle"
  /\ data = Repeat("a", maxRun + 2)
  /\ i = Len(data)
  /\ compressed = <<"2", "5", "5", "a", "a", "a">>

\* the tree huffmanCompress builds for its input
HuffmanRoot == buildHuffmanTree(buildFrequencyTable(data))

\* the chars of the leaves of a tree, from left to right
RECURSIVE LeafChars(_)
LeafChars(t) ==
  IF t.kind = "null" THEN <<>>
  ELSE IF t.kind = "leaf" THEN <<t.char>>
  ELSE LeafChars(t.left) \o LeafChars(t.right)

\* how often the symbol c occurs in d
CountOf(d, c) == Cardinality({k \in 1..Len(d) : d[k] = c})

\* every leaf of t weighs the count of its symbol in d; every other node has
\* exactly two children, both trees of that kind, and weighs their sum
RECURSIVE ProperTree(_, _)
ProperTree(t, d) ==
  IF t.kind = "leaf" THEN t.freq = CountOf(d, t.char) /\ t.freq > 0
  ELSE /\ t.kind = "node"
       /\ DOMAIN t = {"kind", "freq", "left", "right"}
       /\ t.freq = t.left.freq + t.right.freq
       /\ ProperTree(t.left, d)
       /\ ProperTree(t.right, d)

\* how often the node x occurs among the positions at of the array nodes
TimesAmong(nodes, at, x) == Cardinality({k \in at : nodes[k] = x})

\* from the array nodes on, every pass of the merge loop takes two nodes
\* that no remaining node weighs less than, puts their parent in their
\* place and keeps the others, until root alone is left
RECURSIVE MergesJoinLowest(_, _)
MergesJoinLowest(nodes, root) ==
  IF Len(nodes) <= 1 THEN nodes = <<root>>
  ELSE LET next == MergeLowest(nodes)
           parent == next[Len(next)]
       IN  /\ Len(next) = Len(nodes) - 1
           /\ parent.kind = "node"
           /\ \E p, q \in 1..Len(nodes) :
                /\ p # q
                /\ nodes[p] = parent.left
                /\ nodes[q] = parent.right
                /\ \A r \in 1..Len(nodes) \ {p, q} :
                     /\ nodes[r].freq >= parent.left.freq
                     /\ nodes[r].freq >= parent.right.freq
                     /\ TimesAmong(next, 1..(Len(next) - 1), nodes[r])
                          = TimesAmong(nodes, 1..Len(nodes) \ {p, q}, nodes[r])
           /\ MergesJoinLowest(next, root)

\* C18: Huffman tree well-formedness: for a frequency table with at least
\* two symbols buildHuffmanTree returns a tree with exactly one leaf per
\* distinct symbol, whose internal nodes have exactly two children and weigh
\* the sum of their children's weights (the root weighs the input length),
\* each merge joining two nodes of lowest weight among those remaining; for
\* an empty table it returns null.
C18_TreeWellFormed ==
  /\ buildHuffmanTree(<<>>) = NullTree
  /\ HuffmanReturned =>
       LET freqTable == buildFrequencyTable(data)
           leaves == [k \in 1..Len(freqTable) |->
                        HuffmanNode(freqTable[k].char, freqTable[k].freq)]
           chars == LeafChars(HuffmanRoot)
       IN  /\ Len(freqTable) = 0 => HuffmanRoot = NullTree
           /\ Len(freqTable) >= 2 =>
                /\ HuffmanRoot.kind = "node"
                /\ PairwiseDistinct(chars)
                /\ {chars[k] : k \in 1..Len(chars)}
                     = {data[k] : k \in 1..Len(data)}
                /\ ProperTree(HuffmanRoot, data)
                /\ HuffmanRoot.freq = Len(data)
                /\ MergesJoinLowest(leaves, HuffmanRoot)

\* C18 witness: for 'aab1' the two symbols of weight 1 were merged first,
\* and their parent, of weight 2, was then joined with the leaf 'a'.
C18_Witness ==
  /\ HuffmanReturned
  /\ data = <<"a", "a", "b", "1">>
  /\ HuffmanRoot
       = ParentNode(HuffmanNode("a", 2),
                    ParentNode(HuffmanNode("b", 1), HuffmanNode("1", 1)))

\* the bits the codes of the first k symbols of d take
RECURSIVE BitsBefore(_, _, _)
BitsBefore(d, table, k) ==
  IF k = 0 THEN 0 ELSE BitsBefore(d, table, k - 1) + Len(table[d[k]])

\* the sum over the symbols in chars of frequency in d times code length
RECURSIVE WeightedLength(_, _, _)
WeightedLength(d, table, chars) ==
  IF chars = {} THEN 0
  ELSE LET c == CHOOSE x \in chars : TRUE
       IN  CountOf(d, c) * Len(table[c])
             + WeightedLength(d, table, chars \ {c})

\* the text of the entries of the code table for the symbols in chars,
\* each as "symbol":"code", comma-separated
RECURSIVE EntriesText(_, _)
EntriesText(table, chars) ==
  IF chars = {} THEN <<>>
  ELSE LET c == CHOOSE x \in chars : TRUE
           entry == JsonString(<<c>>) \o <<":">> \o JsonString(table[c])
       IN  IF chars = {c} THEN entry
           ELSE entry \o <<",">> \o EntriesText(table, chars \ {c})

\* the serialized code table
TableText(table) == <<"{">> \o EntriesText(table, DOMAIN table) \o <<"}">>

\* C19: Huffman size accounting: the payload is the concatenation, in input
\* order, of each input symbol's code, its bit length is the sum over the
\* symbols of frequency times code length, compressedSize is
\* ceil(bit length / 8) plus the length of the serialized code table, and
\* compressionRatio is computed against that combined size.
C19_SizeAccounting ==
  HuffmanReturned =>
    LET bits == result.compressedData
        bytes == CHOOSE m \in 0..Len(bits) :
                   8 * m >= Len(bits) /\ 8 * (m - 1) < Len(bits)
    IN  /\ \A k \in 1..Len(data) :
             SubSeq(bits, BitsBefore(data, codes, k - 1) + 1,
                    BitsBefore(data, codes, k)) = codes[data[k]]
        /\ Len(bits) = BitsBefore(data, codes, Len(data))
        /\ Len(bits) = WeightedLength(data, codes, DOMAIN codes)
        /\ result.compressedSize = bytes + Len(TableText(codes))
        /\ result.compressionRatio
             = [num |-> (result.originalSize - result.compressedSize) * 100,
                den |-> result.originalSize]

\* C19 witness: 'aab1' gives the 6 bits 001011, one byte of payload and the
\* 27 characters of {"a":"0","b":"10","1":"11"}.
C19_Witness ==
  /\ HuffmanReturned
  /\ data = <<"a", "a", "b", "1">>
  /\ result.compressedData = <<"0", "0", "1", "0", "1", "1">>
  /\ result.compressedSize = 28
  /\ result.compressionRatio = [num |-> -2400, den |-> 4]

\* no symbol of d is a decimal digit
DigitFree(d) == \A k \in 1..Len(d) : ~IsDigit(d[k])

\* C22: RLE round-trip on digit-free input: for every input that holds no
\* decimal digit, runs longer than 255 included, rleDecompress applied to
\* the compressedData of rleCompress returns exactly the input.
C22_RleRoundTripDigitFree ==
  (DecodedOwn("Run-Length Encoding") /\ DigitFree(data)) =>
    /\ decoded = Return(data)
    /\ decoded = rleDecompress(result.compressedData)

\* C22 witness: a run of 256 '"' went out as 255" and a literal '"', and
\* was decoded back.
C22_Witness ==
  /\ DecodedOwn("Run-Length Encoding")
  /\ data = Repeat(Quote, maxRun + 1)
  /\ payload = <<"2", "5", "5", Quote, Quote>>
  /\ decoded = Return(data)

\* C23: every triple lz77Compress emits at cursor i is a valid
\* back-reference into the input: length = 0 exactly when offset = 0; when
\* length > 0 then 1 <= length <= offset <= i and the length symbols found
\* offset back equal those at the cursor; nextChar is the symbol at
\* i + length when that lies inside the input and empty otherwise.
C23_ValidBackReference ==
  [][(pc = "lz77" /\ i' # i) =>
       LET token == compressed'[Len(compressed')]
       IN  /\ Len(compressed') = Len(compressed) + 1
           /\ (token.length = 0) <=> (token.offset = 0)
           /\ token.length > 0 =>
                /\ 1 <= token.length
                /\ token.length <= token.offset
                /\ token.offset <= i
                /\ \A k \in 0..(token.length - 1) :
                     data[i - token.offset + k + 1] = data[i + k + 1]
           /\ token.nextChar
                = (IF i + token.length < Len(data)
                   THEN <<data[i + token.length + 1]>> ELSE <<>>)]_vars

\* C23 witness: at cursor 2 of 'abab' the triple (2, 2, empty) was emitted.
C23_Witness ==
  /\ pc = "lz77"
  /\ data = <<"a", "b", "a", "b">>
  /\ i = 4
  /\ compressed = << [offset |-> 0, length |-> 0, nextChar |-> <<"a">>],
                     [offset |-> 0, length |-> 0, nextChar |-> <<"b">>],
                     [offset |-> 2, length |-> 2, nextChar |-> <<>>] >>

RleReturned == pc = "returned" /\ result.algorithm = "Run-Length Encoding"

\* C24: RLE never expands: the encoded string is no longer than the input,
\* so for a non-empty input rleCompress reports compressedSize <=
\* originalSize and a compressionRatio >= 0.
C24_RleNeverExpands ==
  RleReturned =>
    /\ Len(result.compressedData) <= Len(data)
    /\ Len(data) > 0 =>
         /\ result.compressedSize <= result.originalSize
         /\ result.compressionRatio.den > 0
         /\ result.compressionRatio.num >= 0

\* C24 witness: 'aaaab' is returned as '4ab', 3 bytes for 5.
C24_Witness ==
  /\ RleReturned
  /\ data = <<"a", "a", "a", "a", "b">>
  /\ result.compressedData = <<"4", "a", "b">>
  /\ result.compressionRatio = [num |-> 200, den |-> 5]

\* C25: Huffman code lengths follow frequency: in the code table generated
\* for an input, a symbol that occurs strictly more often than another has
\* a code that is no longer.
C25_LengthFollowsFrequency ==
  HuffmanReturned =>
    \A a, b \in DOMAIN codes :
      CountOf(data, a) > CountOf(data, b) => Len(codes[a]) <= Len(codes[b])

\* C25 witness: in 'aaab1' the symbol 'a' got a code of one bit and 'b' a
\* code of two.
C25_Witness ==
  /\ HuffmanReturned
  /\ data = <<"a", "a", "a", "b", "1">>
  /\ codes["a"] = <<"1">>
  /\ codes["b"] = <<"0", "0">>

\* the try block of the running startCompression throws
CompressionThrows ==
  running /\ TryCompression(selectedFile, selectedAlgorithm).kind = "throw"

\* C21: failed compression in the wizard: when startCompression raises an
\* error (a payload that cannot be decoded, or an unrecognized tag, for
\* which the try block throws too), hasError becomes true, the progress is
\* set to stage 'Error' at 0, compressionResult is left unchanged and the
\* step stays 'processing'; the step becomes 'results' only at the end of a
\* run that did not throw.
C21_FailedCompression ==
  /\ \A file \in {TextFile, DataUrlFile} :
       TryCompression(file, "deflate") = Throw("Unsupported algorithm")
  /\ [][/\ CompressionThrows =>
            (/\ hasError'
             /\ processingProgress' = ProgressEvent("Error", 0, 1)
             /\ compressionResult' = compressionResult
             /\ currentState = "processing"
             /\ currentState' = "processing"
             /\ ~running')
        /\ (currentState' = "results" /\ currentState # "results") =>
            (running /\ ~CompressionThrows)]_vars

\* C21 witness: a run on the text file that holds 'base64,a' has failed
\* while the result of an earlier run was stored, and that result is kept.
C21_Witness ==
  /\ ~running
  /\ currentState = "processing"
  /\ selectedFile = MarkerTextFile
  /\ hasError
  /\ processingProgress = ProgressEvent("Error", 0, 1)
  /\ compressionResult # NoResult

\* the step changes the wizard allows
AllowedSteps ==
  {<<"upload", "algorithm">>, <<"algorithm", "upload">>,
   <<"algorithm", "processing">>, <<"processing", "results">>,
   <<"processing", "upload">>, <<"results", "upload">>}

\* C26: wizard step order under asynchronous file reads: the step changes
\* only by upload -> algorithm, algorithm -> upload, algorithm -> processing
\* -> results and any step -> upload; once the step is 'processing' or
\* 'results' no step moves it back to 'algorithm' or replaces the selected
\* file (resetApp alone clears it).
C26_StepOrder ==
  [][(currentState' # currentState =>
        <<currentState, currentState'>> \in AllowedSteps)
     /\ (currentState \in {"processing", "results"} =>
          (/\ currentState' # "algorithm"
           /\ selectedFile' = selectedFile \/ selectedFile' = NoFile))]_vars

\* C27: wizard state invariant: whenever the step is 'algorithm',
\* 'processing' or 'results' a file is selected, whenever the step is
\* 'results' a compression result is stored, and resetApp (the one step
\* from 'processing' or 'results' to 'upload') clears the file, the result
\* and the error flag and leaves the selected algorithm and the last
\* progress event unchanged.
C27_WizardInvariant ==
  /\ []((currentState \in {"algorithm", "processing", "results"} =>
          selectedFile # NoFile)
        /\ (currentState = "results" => compressionResult # NoResult))
  /\ [][(currentState \in {"processing", "results"}
           /\ currentState' = "upload") =>
          (/\ selectedFile' = NoFile
           /\ compressionResult' = NoResult
           /\ ~hasError'
           /\ selectedAlgorithm' = selectedAlgorithm
           /\ processingProgress' = processingProgress)]_vars

\* C27 witness: after an LZ77 run resetApp has cleared the file and the
\* result; the tag and the 'Complete' event are still there.
C27_Witness ==
  /\ currentState = "upload"
  /\ selectedFile = NoFile
  /\ compressionResult = NoResult
  /\ ~hasError
  /\ selectedAlgorithm = "lz77"
  /\ processingProgress = ProgressEvent("Complete", 100, 1)

====
